---------------------------- MODULE Spec2Model ----------------------------
(***************************************************************************)
(* Model of geoguessr_league_build_xlsx.py: the ranker                     *)
(* (compute_rank_and_borda_with_time), the deadline filter, the table      *)
(* roll-ups (compute_week_tables, compute_total_tables), the entry builder *)
(* (build_week_entries) and the control flow of main.                      *)
(*                                                                         *)
(* Conventions.                                                            *)
(*  - A Python dict is a sequence of <<key, value>> pairs with distinct    *)
(*    keys, in insertion order; assigning to an existing key replaces the  *)
(*    value in place (the key keeps its position), as in CPython.          *)
(*  - A Python float that is always a multiple of 0.5 (ranks, Borda        *)
(*    points and their sums) is stored as the integer number of halves:    *)
(*    rank 1.5 is 3, Borda 2.5 is 5.  Float(n) is float(n) of an int.      *)
(*  - An Optional[int] is None (the empty tuple) or Some(x) (the tuple <<x>>).*)
(***************************************************************************)
EXTENDS Integers, Sequences, FiniteSets, TLC

VARIABLES
    \* ---- one call of compute_rank_and_borda_with_time
    pts_by_player,      \* dict player -> points (argument)
    time_by_player,     \* dict player -> time (argument)
    tie_mode,           \* "average" | "dense" | "min" | "max" (argument)
    rank_best,          \* returned dict player -> rank (in halves)
    borda,              \* returned dict player -> Borda points (in halves)
    rpc                 \* "idle" | "call" (arguments bound) | "done" (returned)

rankVars == <<pts_by_player, time_by_player, tie_mode, rank_best, borda, rpc>>

VARIABLES
    \* ---- one call of filter_entries_by_deadlines
    entries,                  \* list of Entry (argument)
    deadlines_epoch_by_week,  \* dict week label -> deadline epoch (argument)
    keep_missing_time,        \* bool (argument)
    out,                      \* returned list of Entry
    fpc                       \* "idle" | "call" | "done"

filterVars == <<entries, deadlines_epoch_by_week, keep_missing_time, out, fpc>>

VARIABLES
    \* ---- one run of main
    week_args,           \* args.week: the "|"-separated parts of each --week
    ncfa,                \* the _ncfa credential (--ncfa or GEOGUESSR_NCFA)
    weeks,               \* list of WeekSpec [label, deadline] (parse_week_specs)
    fetch_played_at,     \* args.fetch_played_at
    args_keep_missing,   \* args.keep_missing_time
    args_tie,            \* args.tie
    pc,                  \* position of the run in main / build_week_entries
    deadlines_epoch,     \* dict week label -> deadline epoch
    week_i,              \* index of the week of the loop "for w in weeks"
    n_urls,              \* len(urls) of the current week
    map_idx,             \* map_idx of build_week_entries
    items,               \* items of build_week_entries: the records of the
                         \* current map, as far as the loop has read them
    map_name,            \* map_name of the current map
    rule_text,           \* rule_text of the current map
    records_read,        \* number of raw records read so far in the run
    played_at_cache,     \* played_at_cache of build_week_entries
    out_entries,         \* out_entries of build_week_entries
    has_any_played_at,   \* has_any_played_at of build_week_entries
    all_entries,         \* all_entries of main
    any_played_at,       \* any_played_at of main
    lookups,             \* dict game token -> number of calls of
                         \* fetch_game_details_for_played_at in the run
    can_filter,          \* can_filter of main
    filtered_entries,    \* filtered_entries of main
    df_overview_all,     \* the tables of the ALL report: None until computed,
                         \* then Some(table)
    df_weekly_all,
    df_total_all,
    df_stats_all,
    df_overview_f,       \* the tables of the filtered report (None if there
    df_weekly_f,         \* is none)
    df_total_f,
    df_stats_f,
    wrote_all,           \* <out_base>_all.xlsx has been saved
    wrote_filtered       \* <out_base>_filtered.xlsx has been saved

argVars == <<week_args, ncfa, weeks, fetch_played_at, args_keep_missing, args_tie>>
buildVars == <<deadlines_epoch, week_i, n_urls, map_idx, items, map_name,
               rule_text, records_read, played_at_cache, out_entries,
               has_any_played_at, all_entries, any_played_at, lookups>>
tablesAll == <<df_overview_all, df_weekly_all, df_total_all, df_stats_all>>
tablesF == <<df_overview_f, df_weekly_f, df_total_f, df_stats_f>>
reportVars == <<can_filter, filtered_entries, tablesAll, tablesF,
                wrote_all, wrote_filtered>>
mainVars == <<argVars, pc, buildVars, reportVars>>

VARIABLES
    \* ---- one call of fetch_highscores_items
    remote_total,        \* number of entries of the remote leaderboard; the
                         \* entries are named by their positions 1..remote_total
    page_size,           \* page_size (argument)
    max_players,         \* max_players (argument)
    offset,              \* offset of the next request
    all_items,           \* all_items of fetch_highscores_items
    hpc                  \* "idle" | "loop" | "done" (returned) | "raised"

fetchVars == <<remote_total, page_size, max_players, offset, all_items, hpc>>

VARIABLES
    \* ---- the normalisation of one raw leaderboard record
    item,                \* the raw record
    item_entry,          \* None, or Some of the Entry fields made from item
    ipc                  \* "idle" | "call" | "done" | "raised"

itemVars == <<item, item_entry, ipc>>

vars == <<rankVars, filterVars, mainVars, fetchVars, itemVars>>

None == <<>>
Some(x) == <<x>>
Val(o) == o[1]

-----------------------------------------------------------------------------
(* Bounds and input domains *)

MaxPlayers == 3
MaxEntries == 2
MaxRecords == 2
MaxRemote == 4
MaxTableEntries == 3
MaxPageSize == 3
MaxReportEntries == 3

PlayerNames == <<"A", "B", "C", "D", "E">>
Players == {PlayerNames[i] : i \in 1..MaxPlayers}
PointValues == {4000, 5000}
TimeValues == {60, 90}
TieModes == {"average", "dense", "min", "max"}

WeekLabels == <<"W1", "W2">>

\* Epoch seconds: the deadline of a week and play times before, at and after it
DeadlineEpoch == 100
PlayedEpochs == {90, 100, 110}

\* Number of URLs in a week's URL file (load_urls)
UrlCounts == {0, 1, 2}

\* The deadline texts of a week spec: one that parses and one that does not
DeadlineTexts == {"deadline", "bad"}

\* The credential: missing or present
NcfaValues == {"", "cookie"}

\* Game tokens of the leaderboard records
GameTokens == {"g1", "g2"}

\* Tie modes and points of the runs of main
RunTieModes == {"average"}
RunPointValues == {5000}

\* 10**12 in the source; TLC integers are 32 bit, so the model uses the
\* largest TLC integer: like 10**12 it is above every time of TimeValues.
TIME_SENTINEL == 2147483647

-----------------------------------------------------------------------------
(* Python dict and list helpers *)

Range(s) == {s[i] : i \in 1..Len(s)}

Keys(d) == [i \in 1..Len(d) |-> d[i][1]]

HasKey(d, k) == \E i \in 1..Len(d) : d[i][1] = k

Get(d, k) == d[CHOOSE i \in 1..Len(d) : d[i][1] = k][2]

GetOr(d, k, dflt) == IF HasKey(d, k) THEN Get(d, k) ELSE dflt

Put(d, k, v) ==
    IF HasKey(d, k)
    THEN [i \in 1..Len(d) |-> IF d[i][1] = k THEN <<k, v>> ELSE d[i]]
    ELSE Append(d, <<k, v>>)

Float(n) == 2 * n

RECURSIVE SumSeq(_)
SumSeq(s) == IF s = <<>> THEN 0 ELSE Head(s) + SumSeq(Tail(s))

MinSeq(s) == CHOOSE x \in Range(s) : \A y \in Range(s) : x <= y
MaxSeq(s) == CHOOSE x \in Range(s) : \A y \in Range(s) : x >= y

\* list(range(a, b))
PyRange(a, b) == [i \in 1..(IF b > a THEN b - a ELSE 0) |-> a + i - 1]

\* Python's < on two tuples of ints of the same length
RECURSIVE TupleLess(_, _)
TupleLess(a, b) ==
    IF a = <<>> THEN FALSE
    ELSE Head(a) < Head(b) \/ (Head(a) = Head(b) /\ TupleLess(Tail(a), Tail(b)))

\* sorted(seq, key=...) on a list of <<key, item>> pairs.  Python's sort is
\* stable: an element goes after every element whose key is not greater than
\* its own, so before the first element with a strictly greater key.
RECURSIVE InsertByKey(_, _)
InsertByKey(x, s) ==
    IF s = <<>> THEN <<x>>
    ELSE IF TupleLess(x[1], Head(s)[1])
         THEN <<x>> \o s
         ELSE <<Head(s)>> \o InsertByKey(x, Tail(s))

RECURSIVE SortedByKey(_)
SortedByKey(s) ==
    IF s = <<>> THEN <<>>
    ELSE InsertByKey(s[Len(s)], SortedByKey(SubSeq(s, 1, Len(s) - 1)))

-----------------------------------------------------------------------------
(* compute_rank_and_borda_with_time *)

\* key = (pts_by_player[p], time_by_player.get(p, 10**12)): the tie group of p
RankKey(pts, tim, p) == <<Get(pts, p), GetOr(tim, p, TIME_SENTINEL)>>

\* Mutant of RankSortKey: the points are sorted ascending.
RankSortKeyPointsAscending(k) == <<k[1], k[2]>>

\* lambda k: (-k[0], k[1]), the sort key of a player and of a group
RankSortKey(k) == <<-k[1], k[2]>>

\* players_sorted = sorted(players, key=...)
PlayersSorted(pts, tim) ==
    LET players == Keys(pts)
        keyed == [i \in 1..Len(players) |->
                     <<RankSortKey(RankKey(pts, tim, players[i])), players[i]>>]
        srt == SortedByKey(keyed)
    IN  [i \in 1..Len(srt) |-> srt[i][2]]

\* groups.setdefault(key, []).append(p) for p in players_sorted
RECURSIVE GroupPlayers(_, _, _, _)
GroupPlayers(ps, pts, tim, groups) ==
    IF ps = <<>> THEN groups
    ELSE LET p == Head(ps)
             key == RankKey(pts, tim, p)
         IN  GroupPlayers(Tail(ps), pts, tim,
                          Put(groups, key, Append(GetOr(groups, key, <<>>), p)))

\* keys_sorted = sorted(groups.keys(), key=lambda k: (-k[0], k[1]))
KeysSorted(groups) ==
    LET ks == Keys(groups)
        srt == SortedByKey([i \in 1..Len(ks) |-> <<RankSortKey(ks[i]), ks[i]>>])
    IN  [i \in 1..Len(srt) |-> srt[i][2]]

\* Mutant of TieRank: every tie mode shares the best position of the tie.
TieRankAlwaysMin(mode, current_rank, k) == Float(current_rank)

\* Mutant of TieRank: the "min" and "max" branches are exchanged.
TieRankMinMaxSwapped(mode, current_rank, k) ==
    LET occupied == PyRange(current_rank, current_rank + k)
    IN  CASE mode = "average" -> (2 * SumSeq(occupied)) \div Len(occupied)
          [] mode = "dense"   -> Float(current_rank)
          [] mode = "min"     -> Float(MaxSeq(occupied))
          [] mode = "max"     -> Float(MinSeq(occupied))

\* The rank value (in halves) shared by a tie group of k > 1 players that
\* occupies the positions current_rank .. current_rank + k - 1.
TieRank(mode, current_rank, k) ==
    LET occupied == PyRange(current_rank, current_rank + k)
    IN  CASE mode = "average" -> (2 * SumSeq(occupied)) \div Len(occupied)
          [] mode = "dense"   -> Float(current_rank)
          [] mode = "min"     -> Float(MinSeq(occupied))
          [] mode = "max"     -> Float(MaxSeq(occupied))

\* Mutant of NextRank: "dense" skips the tied positions like the other modes.
NextRankAlwaysSkips(mode, current_rank, k) == current_rank + k

\* current_rank after a tie group of k > 1 players
NextRank(mode, current_rank, k) ==
    current_rank + (IF mode = "dense" THEN 1 ELSE k)

\* Mutant of RankLoop: the members of a tie group get consecutive ranks in
\* list order (ties broken by input order).
RECURSIVE RankLoopByPosition(_, _, _, _, _)
RankLoopByPosition(keys, groups, mode, current_rank, rank) ==
    IF keys = <<>> THEN rank
    ELSE LET names == Get(groups, Head(keys))
             RECURSIVE Assign(_, _, _)
             Assign(ns, i, r) == IF ns = <<>> THEN r
                                 ELSE Assign(Tail(ns), i + 1, Put(r, Head(ns), Float(i)))
         IN  RankLoopByPosition(Tail(keys), groups, mode, current_rank + Len(names),
                                Assign(names, current_rank, rank))

\* for key in keys_sorted: ...   (rank_best is a dict player -> rank)
RECURSIVE RankLoop(_, _, _, _, _)
RankLoop(keys, groups, mode, current_rank, rank) ==
    IF keys = <<>> THEN rank
    ELSE LET names == Get(groups, Head(keys))
             k == Len(names)
         IN  IF k = 1
             THEN RankLoop(Tail(keys), groups, mode, current_rank + 1,
                           Put(rank, names[1], Float(current_rank)))
             ELSE LET val == TieRank(mode, current_rank, k)
                      RECURSIVE Assign(_, _)
                      Assign(ns, r) == IF ns = <<>> THEN r
                                       ELSE Assign(Tail(ns), Put(r, Head(ns), val))
                  IN  RankLoop(Tail(keys), groups, mode,
                               NextRank(mode, current_rank, k),
                               Assign(names, rank))

\* Mutant of RankBest: the first position is 0.
RankBestFromZero(pts, tim, mode) ==
    IF pts = <<>> THEN <<>>
    ELSE LET groups == GroupPlayers(PlayersSorted(pts, tim), pts, tim, <<>>)
         IN  RankLoop(KeysSorted(groups), groups, mode, 0, <<>>)

\* rank_best of compute_rank_and_borda_with_time
RankBest(pts, tim, mode) ==
    IF pts = <<>> THEN <<>>
    ELSE LET groups == GroupPlayers(PlayersSorted(pts, tim), pts, tim, <<>>)
         IN  RankLoop(KeysSorted(groups), groups, mode, 1, <<>>)

\* Mutant of BordaOf: the "+ 1" is dropped.
BordaOfNoPlusOne(N, rank) == Float(N) - rank

\* float(N - rank_best[p] + 1), in halves
BordaOf(N, rank) == Float(N) - rank + Float(1)

\* borda of compute_rank_and_borda_with_time
BordaPoints(pts, rank) ==
    LET N == Len(pts)
    IN  [i \in 1..Len(rank) |-> <<rank[i][1], BordaOf(N, rank[i][2])>>]

-----------------------------------------------------------------------------
(* Entry and filter_entries_by_deadlines *)

\* The Entry dataclass.  map_url and map_token are fixed by (week_label,
\* map_index) and are not read by any computation modelled here.
MakeEntry(week, mi, name, rule, player, pts, ttime, played_at) ==
    [week_label |-> week, map_index |-> mi, map_name |-> name,
     rule_text |-> rule, player |-> player, total_pts |-> pts,
     total_time |-> ttime, played_at_epoch |-> played_at]

\* Mutant of KeepsEntry: the deadline comparison is strict.
KeepsEntryStrict(e, deadlines, keep_missing) ==
    LET dl == IF HasKey(deadlines, e.week_label)
              THEN Some(Get(deadlines, e.week_label)) ELSE None
    IN  IF dl = None THEN TRUE
        ELSE IF e.played_at_epoch = None THEN keep_missing
        ELSE Val(e.played_at_epoch) < Val(dl)

\* The body of the loop of filter_entries_by_deadlines: TRUE when e is
\* appended to out.
KeepsEntry(e, deadlines, keep_missing) ==
    LET dl == IF HasKey(deadlines, e.week_label)
              THEN Some(Get(deadlines, e.week_label)) ELSE None
    IN  IF dl = None THEN TRUE
        ELSE IF e.played_at_epoch = None THEN keep_missing
        ELSE Val(e.played_at_epoch) <= Val(dl)

\* Mutant of FilterEntriesByDeadlines: the kept entries are returned newest
\* first.
RECURSIVE FilterEntriesNewestFirst(_, _, _)
FilterEntriesNewestFirst(es, deadlines, keep_missing) ==
    IF es = <<>> THEN <<>>
    ELSE FilterEntriesNewestFirst(Tail(es), deadlines, keep_missing)
            \o (IF KeepsEntry(Head(es), deadlines, keep_missing)
                THEN <<Head(es)>> ELSE <<>>)

\* out = []; for e in entries: ... out.append(e); return out
RECURSIVE FilterEntriesByDeadlines(_, _, _)
FilterEntriesByDeadlines(es, deadlines, keep_missing) ==
    IF es = <<>> THEN <<>>
    ELSE (IF KeepsEntry(Head(es), deadlines, keep_missing)
          THEN <<Head(es)>> ELSE <<>>)
            \o FilterEntriesByDeadlines(Tail(es), deadlines, keep_missing)

-----------------------------------------------------------------------------
(* pandas helpers: a DataFrame is the sequence of its rows (records) *)

\* String order of the week labels and the player names used by the model
WeekIndex(w) == CHOOSE i \in 1..Len(WeekLabels) : WeekLabels[i] = w
NameIndex(p) == CHOOSE i \in 1..Len(PlayerNames) : PlayerNames[i] = p

\* The distinct values of a list, in order of first appearance
RECURSIVE Distinct(_)
Distinct(s) ==
    IF s = <<>> THEN <<>>
    ELSE LET d == Distinct(SubSeq(s, 1, Len(s) - 1))
             x == s[Len(s)]
         IN  IF x \in Range(d) THEN d ELSE Append(d, x)

\* The items of a sorted list of <<sort key, item>> pairs
Items(keyed) == [i \in 1..Len(keyed) |-> keyed[i][2]]

\* groupby(...) with sort=True: the distinct group keys, in sort order.
\* keyed is the list of <<sort key of the group key, group key>> of the rows.
GroupKeys(keyed) == Items(SortedByKey(Distinct(keyed)))

\* df.sort_values(...): stable sort of the rows; keyed is the list of
\* <<sort key, row>> of the rows
SortValues(keyed) == Items(SortedByKey(keyed))

\* Series.nunique()
NUnique(s) == Cardinality(Range(s))

\* Series.clip(lower=1) of one value
ClipLower1(n) == IF n < 1 THEN 1 ELSE n

\* a / b for a float a held in halves and an int b >= 1: the exact quotient,
\* kept as the fraction num / (2 * den)
Quotient(a, b) == [num |-> a, den |-> b]

-----------------------------------------------------------------------------
(* compute_week_tables *)

\* {row["player"]: int(row[col]) for _, row in g.iterrows()}
RECURSIVE DictOfRows(_, _, _)
DictOfRows(g, col, d) ==
    IF g = <<>> THEN d
    ELSE DictOfRows(Tail(g), col, Put(d, Head(g).player, Head(g)[col]))

\* The rows appended to out_rows for one (week, map_index) group g
GroupRows(g, tie) ==
    LET pts_map == DictOfRows(g, "total_pts", <<>>)
        time_map == DictOfRows(g, "total_time", <<>>)
        rank == RankBest(pts_map, time_map, tie)
        brd == BordaPoints(pts_map, rank)
    IN  [i \in 1..Len(g) |->
            [week |-> g[i].week_label, map_index |-> g[i].map_index,
             map_name |-> g[i].map_name, rule_text |-> g[i].rule_text,
             player |-> g[i].player, total_pts |-> g[i].total_pts,
             total_time |-> g[i].total_time,
             played_at_epoch |-> g[i].played_at_epoch,
             rank_best |-> Get(rank, g[i].player),
             borda_points |-> Get(brd, g[i].player)]]

WeekMapKey(e) == <<e.week_label, e.map_index>>
WeekMapSortKey(k) == <<WeekIndex(k[1]), k[2]>>

RECURSIVE ConcatAll(_)
ConcatAll(ss) == IF ss = <<>> THEN <<>> ELSE Head(ss) \o ConcatAll(Tail(ss))

\* df_overview: for (w, mi), g in df.groupby(["week", "map_index"], sort=True)
OverviewTable(es, tie) ==
    LET keys == GroupKeys([i \in 1..Len(es) |->
                    <<WeekMapSortKey(WeekMapKey(es[i])), WeekMapKey(es[i])>>])
    IN  ConcatAll([i \in 1..Len(keys) |->
            LET InGroup(e) == WeekMapKey(e) = keys[i]
            IN  GroupRows(SelectSeq(es, InGroup), tie)])

RowWeekPlayer(r) == <<r.week, r.player>>
WeekPlayerSortKey(k) == <<WeekIndex(k[1]), NameIndex(k[2])>>
WeeklySortKey(r) == <<WeekIndex(r.week), -r.weekly_borda, -r.weekly_total_pts>>

\* df_weekly: groupby(["week", "player"]).agg(...).sort_values(...)
WeeklyTable(overview) ==
    LET keys == GroupKeys([i \in 1..Len(overview) |->
                    <<WeekPlayerSortKey(RowWeekPlayer(overview[i])),
                      RowWeekPlayer(overview[i])>>])
        agg == [i \in 1..Len(keys) |->
                  LET InGroup(r) == RowWeekPlayer(r) = keys[i]
                      g == SelectSeq(overview, InGroup)
                  IN  [week |-> keys[i][1], player |-> keys[i][2],
                       weekly_borda |-> SumSeq([j \in 1..Len(g) |-> g[j].borda_points]),
                       weekly_total_pts |-> SumSeq([j \in 1..Len(g) |-> g[j].total_pts]),
                       maps_counted |-> NUnique([j \in 1..Len(g) |-> g[j].map_index])]]
    IN  SortValues([i \in 1..Len(agg) |-> <<WeeklySortKey(agg[i]), agg[i]>>])

-----------------------------------------------------------------------------
(* compute_total_tables *)

PlayerSortKey(p) == <<NameIndex(p)>>

\* Mutant of TotalSortKey: the raw points are sorted ascending.
TotalSortKeyPointsAscending(r) == <<-r.total_borda, r.total_pts>>

\* sort_values(["total_borda", "total_pts"], ascending=[False, False])
TotalSortKey(r) == <<-r.total_borda, -r.total_pts>>

\* maps_counted=("map_index", "nunique") of the rows g of one player
MapsCounted(g) == NUnique([j \in 1..Len(g) |-> g[j].map_index])

\* weeks_counted=("week", "nunique") of the rows g of one player
WeeksCounted(g) == NUnique([j \in 1..Len(g) |-> g[j].week])

\* by_player with its three averages
ByPlayer(overview) ==
    LET keys == GroupKeys([i \in 1..Len(overview) |->
                    <<PlayerSortKey(overview[i].player), overview[i].player>>])
    IN  [i \in 1..Len(keys) |->
            LET InGroup(r) == r.player = keys[i]
                g == SelectSeq(overview, InGroup)
                tb == SumSeq([j \in 1..Len(g) |-> g[j].borda_points])
                tp == SumSeq([j \in 1..Len(g) |-> g[j].total_pts])
                mc == MapsCounted(g)
                wc == WeeksCounted(g)
            IN  [player |-> keys[i], total_borda |-> tb, total_pts |-> tp,
                 maps_counted |-> mc, weeks_counted |-> wc,
                 avg_borda_per_map |-> Quotient(tb, ClipLower1(mc)),
                 avg_borda_per_week |-> Quotient(tb, ClipLower1(wc)),
                 avg_pts_per_map |-> Quotient(Float(tp), ClipLower1(mc))]]

\* total = by_player.sort_values(["total_borda", "total_pts"], descending)
TotalTable(overview) ==
    LET by_player == ByPlayer(overview)
    IN  SortValues([i \in 1..Len(by_player) |-> <<TotalSortKey(by_player[i]), by_player[i]>>])

RowPlayerWeek(r) == <<r.player, r.week>>
PlayerWeekSortKey(k) == <<NameIndex(k[1]), WeekIndex(k[2])>>

\* Mutant of BestWeekSortKey: the weeks of a player are sorted by ascending
\* Borda sum.
BestWeekSortKeyAscending(r) == <<NameIndex(r.player), r.week_borda, -r.week_pts>>

\* sort_values(["player", "week_borda", "week_pts"], ascending=[True, False, False])
BestWeekSortKey(r) == <<NameIndex(r.player), -r.week_borda, -r.week_pts>>

\* per_week: groupby(["player", "week"]).agg(...)
PerWeek(overview) ==
    LET keys == GroupKeys([i \in 1..Len(overview) |->
                    <<PlayerWeekSortKey(RowPlayerWeek(overview[i])),
                      RowPlayerWeek(overview[i])>>])
    IN  [i \in 1..Len(keys) |->
            LET InGroup(r) == RowPlayerWeek(r) = keys[i]
                g == SelectSeq(overview, InGroup)
            IN  [player |-> keys[i][1], week |-> keys[i][2],
                 week_borda |-> SumSeq([j \in 1..Len(g) |-> g[j].borda_points]),
                 week_pts |-> SumSeq([j \in 1..Len(g) |-> g[j].total_pts]),
                 week_maps |-> NUnique([j \in 1..Len(g) |-> g[j].map_index])]]

\* best_week: per_week.sort_values(...).groupby("player").head(1)
BestWeek(overview) ==
    LET per_week == PerWeek(overview)
        srt == SortValues([i \in 1..Len(per_week) |->
                              <<BestWeekSortKey(per_week[i]), per_week[i]>>])
        IsFirstOfPlayer(i) == \A j \in 1..(i - 1) : srt[j].player # srt[i].player
        RECURSIVE Heads(_)
        Heads(i) == IF i > Len(srt) THEN <<>>
                    ELSE (IF IsFirstOfPlayer(i) THEN <<srt[i]>> ELSE <<>>) \o Heads(i + 1)
    IN  Heads(1)

\* stats = total.merge(best_week, on="player", how="left").sort_values(...)
StatsTable(total, best) ==
    LET merged == [i \in 1..Len(total) |->
                     LET b == best[CHOOSE j \in 1..Len(best) :
                                      best[j].player = total[i].player]
                     IN  [player |-> total[i].player,
                          total_borda |-> total[i].total_borda,
                          total_pts |-> total[i].total_pts,
                          maps_counted |-> total[i].maps_counted,
                          weeks_counted |-> total[i].weeks_counted,
                          avg_borda_per_map |-> total[i].avg_borda_per_map,
                          avg_borda_per_week |-> total[i].avg_borda_per_week,
                          avg_pts_per_map |-> total[i].avg_pts_per_map,
                          best_week |-> b.week,
                          best_week_borda |-> b.week_borda,
                          best_week_pts |-> b.week_pts]]
    IN  SortValues([i \in 1..Len(merged) |-> <<TotalSortKey(merged[i]), merged[i]>>])

-----------------------------------------------------------------------------
(* Specification of one ranker call: the arguments are drawn in the initial  *)
(* state as compute_week_tables builds them (both dicts keyed by the same    *)
(* players, in row order), the call returns in one step.                     *)

\* All sequences of distinct players (every insertion order of every subset)
RECURSIVE Orders(_)
Orders(n) ==
    IF n = 0 THEN {<<>>}
    ELSE LET prev == Orders(n - 1)
         IN  prev \cup {Append(s, p) : s \in {t \in prev : Len(t) = n - 1},
                                        p \in Players}

DistinctOrders == {s \in Orders(MaxPlayers) : \A i, j \in 1..Len(s) : i # j => s[i] # s[j]}

DictsOver(order, values) ==
    {[i \in 1..Len(order) |-> <<order[i], f[i]>>] : f \in [1..Len(order) -> values]}

RankIdle ==
    /\ pts_by_player = <<>> /\ time_by_player = <<>> /\ tie_mode = "average"
    /\ rank_best = <<>> /\ borda = <<>> /\ rpc = "idle"

FilterIdle ==
    /\ entries = <<>> /\ deadlines_epoch_by_week = <<>>
    /\ keep_missing_time = FALSE /\ out = <<>> /\ fpc = "idle"

BuildStartState ==
    /\ deadlines_epoch = <<>> /\ week_i = 1 /\ n_urls = 0 /\ map_idx = 0
    /\ items = <<>> /\ map_name = "" /\ rule_text = <<>> /\ records_read = 0
    /\ played_at_cache = <<>> /\ out_entries = <<>> /\ has_any_played_at = FALSE
    /\ all_entries = <<>> /\ any_played_at = FALSE /\ lookups = <<>>

ReportStartState ==
    /\ can_filter = FALSE /\ filtered_entries = None
    /\ df_overview_all = None /\ df_weekly_all = None
    /\ df_total_all = None /\ df_stats_all = None
    /\ df_overview_f = None /\ df_weekly_f = None
    /\ df_total_f = None /\ df_stats_f = None
    /\ wrote_all = FALSE /\ wrote_filtered = FALSE

FetchIdle ==
    /\ remote_total = 0 /\ page_size = 1 /\ max_players = 1 /\ offset = 0
    /\ all_items = <<>> /\ hpc = "idle"

ItemIdle == item = None /\ item_entry = None /\ ipc = "idle"

MainIdle ==
    /\ week_args = <<>> /\ ncfa = ""
    /\ weeks = <<>> /\ fetch_played_at = FALSE /\ args_keep_missing = FALSE
    /\ args_tie = "average" /\ pc = "idle"
    /\ BuildStartState /\ ReportStartState

InitRank ==
    /\ \E order \in DistinctOrders :
         /\ pts_by_player \in DictsOver(order, PointValues)
         /\ time_by_player \in DictsOver(order, TimeValues)
    /\ tie_mode \in TieModes
    /\ rank_best = <<>>
    /\ borda = <<>>
    /\ rpc = "call"
    /\ FilterIdle
    /\ MainIdle
    /\ FetchIdle
    /\ ItemIdle

RankCall ==
    /\ rpc = "call"
    /\ rank_best' = RankBest(pts_by_player, time_by_player, tie_mode)
    /\ borda' = BordaPoints(pts_by_player, rank_best')
    /\ rpc' = "done"
    /\ UNCHANGED <<pts_by_player, time_by_player, tie_mode, filterVars, mainVars,
                   fetchVars, itemVars>>

NextRankSpec == RankCall

SpecRank == InitRank /\ [][NextRankSpec]_vars

-----------------------------------------------------------------------------
(* Specification of one filter call: the entry list, the deadlines and the   *)
(* flag are drawn in the initial state, the call returns in one step.        *)

\* Sequences over S of length 0..n
RECURSIVE SeqsUpTo(_, _)
SeqsUpTo(S, n) ==
    IF n = 0 THEN {<<>>}
    ELSE LET prev == SeqsUpTo(S, n - 1)
         IN  prev \cup {Append(s, x) : s \in {t \in prev : Len(t) = n - 1}, x \in S}

\* Entries as build_week_entries makes them, over the fields the filter reads
\* (week_label, played_at_epoch) and the player
FilterInputEntries ==
    {MakeEntry(w, 1, "Map 1", <<>>, p, 5000, 60, t) :
        w \in Range(WeekLabels), p \in {"A", "B"},
        t \in {Some(x) : x \in PlayedEpochs} \cup {None}}

\* deadlines_epoch of main: a deadline for any subset of the weeks
DeadlineDicts ==
    {d \in SeqsUpTo({<<w, DeadlineEpoch>> : w \in Range(WeekLabels)}, Len(WeekLabels)) :
        \A i, j \in 1..Len(d) : i < j =>
            \E a, b \in 1..Len(WeekLabels) :
                a < b /\ WeekLabels[a] = d[i][1] /\ WeekLabels[b] = d[j][1]}

InitFilter ==
    /\ entries \in SeqsUpTo(FilterInputEntries, MaxEntries)
    /\ deadlines_epoch_by_week \in DeadlineDicts
    /\ keep_missing_time \in BOOLEAN
    /\ out = <<>>
    /\ fpc = "call"
    /\ RankIdle
    /\ MainIdle
    /\ FetchIdle
    /\ ItemIdle

FilterCall ==
    /\ fpc = "call"
    /\ out' = FilterEntriesByDeadlines(entries, deadlines_epoch_by_week, keep_missing_time)
    /\ fpc' = "done"
    /\ UNCHANGED <<entries, deadlines_epoch_by_week, keep_missing_time, rankVars,
                   mainVars, fetchVars, itemVars>>

NextFilterSpec == FilterCall

SpecFilter == InitFilter /\ [][NextFilterSpec]_vars

-----------------------------------------------------------------------------
(* fetch_highscores_items: the arguments and the remote leaderboard are      *)
(* drawn in the initial state, every step is one round of "while True".      *)

\* The items the endpoint returns for ?limit=limit&offset=off: the entries
\* off + 1 .. off + limit of the leaderboard, as far as they exist
HighscoresPage(total, limit, off) ==
    LET n == IF total - off < 0 THEN 0
             ELSE IF total - off < limit THEN total - off ELSE limit
    IN  [i \in 1..n |-> off + i]

InitFetch ==
    /\ remote_total \in 0..MaxRemote
    /\ page_size \in 1..MaxPageSize
    /\ max_players \in 1..MaxRemote
    /\ offset = 0
    /\ all_items = <<>>
    /\ hpc = "loop"
    /\ RankIdle
    /\ FilterIdle
    /\ MainIdle
    /\ ItemIdle

\* One round of the loop: request a page, extend all_items, test the breaks
FetchPage ==
    /\ hpc = "loop"
    /\ LET page == HighscoresPage(remote_total, page_size, offset)
       IN  IF page = <<>>
           THEN hpc' = "done" /\ UNCHANGED <<all_items, offset>>
           ELSE /\ all_items' = all_items \o page
                /\ IF Len(page) < page_size
                   THEN hpc' = "done" /\ offset' = offset
                   ELSE /\ offset' = offset + page_size
                        /\ hpc' = IF offset' >= max_players THEN "done" ELSE "loop"
    /\ UNCHANGED <<remote_total, page_size, max_players, rankVars, filterVars,
                   mainVars, itemVars>>

\* http_get_json raises on an HTTP status >= 400
FetchPageFails ==
    /\ hpc = "loop"
    /\ hpc' = "raised"
    /\ UNCHANGED <<remote_total, page_size, max_players, offset, all_items,
                   rankVars, filterVars, mainVars, itemVars>>

NextFetchSpec == FetchPage \/ FetchPageFails

SpecFetch == InitFetch /\ [][NextFetchSpec]_vars

-----------------------------------------------------------------------------
(* Raw leaderboard records and their normalisation *)

\* A JSON value of the payload, by its Python type: None (also an absent
\* key), a bool, an int n, a float (n is its number of halves; NaN apart), a
\* string (s is the sequence of its characters) or a list.
NoneVal == [t |-> "none", n |-> 0, s |-> <<>>]
BoolVal == [t |-> "bool", n |-> 1, s |-> <<>>]
IntVal(n) == [t |-> "int", n |-> n, s |-> <<>>]
FloatVal(halves) == [t |-> "float", n |-> halves, s |-> <<>>]
NanVal == [t |-> "nan", n |-> 0, s |-> <<>>]
StrVal(s) == [t |-> "str", n |-> 0, s |-> s]
ListVal == [t |-> "list", n |-> 0, s |-> <<>>]

\* An exception raised by a call (neither None nor Some(x))
Raised == <<0, 0>>

\* str.strip(): the blanks at both ends are removed
RECURSIVE StripLeft(_)
StripLeft(s) == IF s # <<>> /\ Head(s) = " " THEN StripLeft(Tail(s)) ELSE s
RECURSIVE StripRight(_)
StripRight(s) ==
    IF s # <<>> /\ s[Len(s)] = " " THEN StripRight(SubSeq(s, 1, Len(s) - 1)) ELSE s
Strip(s) == StripRight(StripLeft(s))

\* str.replace(",", "")
RemoveCommas(s) == LET NotComma(c) == c # "," IN SelectSeq(s, NotComma)

\* The characters for which str.isdigit() holds: the decimal digits and
\* digits such as the superscript two, which int() does not accept
DecimalDigits == <<"0", "1", "2", "3", "4", "5", "6", "7", "8", "9">>
IsDigit(s) == s # <<>> /\ \A i \in 1..Len(s) : s[i] \in Range(DecimalDigits) \cup {"sup2"}

DigitValue(c) == (CHOOSE i \in 1..Len(DecimalDigits) : DecimalDigits[i] = c) - 1

\* int(s) of a string for which isdigit() holds: ValueError on a digit that
\* is not decimal
RECURSIVE IntOfDigits(_, _)
IntOfDigits(s, acc) ==
    IF s = <<>> THEN Some(acc)
    ELSE IF Head(s) \notin Range(DecimalDigits) THEN Raised
    ELSE IntOfDigits(Tail(s), 10 * acc + DigitValue(Head(s)))

\* _parse_int_maybe: None, Some(int), or Raised (int() of NaN or of a
\* non-decimal digit)
ParseIntMaybe(x) ==
    CASE x.t \in {"none", "bool"} -> None
      [] x.t = "int" -> Some(x.n)
      [] x.t = "float" -> Some(x.n \div 2)
      [] x.t = "nan" -> Raised
      [] x.t = "str" -> LET str == RemoveCommas(Strip(x.s))
                        IN  IF IsDigit(str) THEN IntOfDigits(str, 0) ELSE None
      [] OTHER -> None

\* One item of the highscores payload: item["game"] with player.nick,
\* player.totalScore.amount, player.totalScoreInPoints, player.totalTime,
\* token, mapName and the rule flags.  has_game is FALSE for an item that is
\* no dict or has no "game" key, has_player is FALSE when game["player"]
\* is missing; amount is NoneVal also when player["totalScore"] is missing.
\* A nick string is made of blanks and at most one word, which stands for
\* its non-blank text.  token is "" when absent.
ItemsOf(games, players, nicks, amounts, in_points, times, tokens, map_names) ==
    [has_game : games, has_player : players, nick : nicks, amount : amounts,
     totalScoreInPoints : in_points, totalTime : times, token : tokens,
     mapName : map_names, forbidMoving : {FALSE}, forbidZooming : {FALSE},
     forbidRotating : {FALSE}, timeLimit : {0}]

\* The records of the runs of main: a valid record of player A, a record
\* with a blank nick, and an item without "game"
RawItems ==
    ItemsOf({TRUE}, {TRUE}, {StrVal(<<"A">>), StrVal(<<>>)},
            {StrVal(<<"5", ",", "0", "0", "0">>)}, {NoneVal}, {IntVal(60)},
            GameTokens \cup {""}, {"World"})
      \cup ItemsOf({FALSE}, {FALSE}, {NoneVal}, {NoneVal}, {NoneVal}, {NoneVal},
                   {""}, {""})

\* What one call of fetch_game_details_for_played_at can return
LookupResults == {None} \cup {Some(x) : x \in {90, 110}}

\* The text of a nick made of blanks around one word
WordOf(s) == s[1]

PlayerNameFromItem(it) ==
    IF it.has_game /\ it.has_player /\ it.nick.t = "str" /\ Strip(it.nick.s) # <<>>
    THEN WordOf(Strip(it.nick.s))
    ELSE "UNKNOWN"

\* Each try block ends in "pass" on any exception
TotalPointsFromItem(it) ==
    LET v1 == IF it.has_game /\ it.has_player THEN ParseIntMaybe(it.amount) ELSE Raised
        v2 == IF it.has_game /\ it.has_player
              THEN ParseIntMaybe(it.totalScoreInPoints) ELSE Raised
    IN  IF v1 # None /\ v1 # Raised THEN Val(v1)
        ELSE IF v2 # None /\ v2 # Raised THEN Val(v2)
        ELSE 0

TotalTimeFromItem(it) ==
    LET v == IF it.has_game /\ it.has_player THEN ParseIntMaybe(it.totalTime) ELSE Raised
    IN  IF v # None /\ v # Raised THEN Val(v) ELSE TIME_SENTINEL

\* The part of the loop body of build_week_entries that reads the record
\* alone: None when the record is skipped ("continue"), else the player,
\* total_pts and total_time of the Entry
NormaliseItem(it) ==
    LET name == PlayerNameFromItem(it)
    IN  IF ~it.has_game \/ name = "UNKNOWN" THEN None
        ELSE Some([player |-> name, total_pts |-> TotalPointsFromItem(it),
                   total_time |-> TotalTimeFromItem(it)])

\* The raw records of the normalisation alone: every kind of nick, of points
\* field and of time field
WideNicks ==
    {NoneVal, IntVal(1), StrVal(<<>>), StrVal(<<" ">>), StrVal(<<"A">>),
     StrVal(<<" ", "A", " ">>), StrVal(<<"UNKNOWN">>)}
WideAmounts ==
    {NoneVal, BoolVal, IntVal(4000), FloatVal(9001), NanVal, ListVal,
     StrVal(<<"5", ",", "0", "0", "0">>), StrVal(<<" ", "3", "0", "0", " ">>),
     StrVal(<<"a", "b", "c">>), StrVal(<<"sup2">>), StrVal(<<"-", "5">>)}
WideInPoints == {NoneVal, IntVal(7), StrVal(<<"a", "b", "c">>)}
WideTimes == {NoneVal, IntVal(60), StrVal(<<"9", "0">>), StrVal(<<"a", "b", "c">>)}

WideRawItems ==
    ItemsOf(BOOLEAN, BOOLEAN, WideNicks, WideAmounts, WideInPoints, WideTimes,
            {"g1"}, {"World"})

InitItem ==
    /\ item \in {Some(it) : it \in WideRawItems}
    /\ item_entry = None
    /\ ipc = "call"
    /\ RankIdle
    /\ FilterIdle
    /\ MainIdle
    /\ FetchIdle

\* The record is read by one round of "for it in items"
ItemCall ==
    /\ ipc = "call"
    /\ item_entry' = NormaliseItem(Val(item))
    /\ ipc' = "done"
    /\ UNCHANGED <<item, rankVars, filterVars, mainVars, fetchVars>>

NextItemSpec == ItemCall

SpecItem == InitItem /\ [][NextItemSpec]_vars

\* Decimal text of the numbers a rule text can show
NumText(n) == CASE n = 1 -> "1" [] n = 5 -> "5" [] n = 45 -> "45" [] OTHER -> "n"

\* The parts that " - ".join(parts) joins; the empty text is <<>>
RuleTextFromGame(game) ==
    LET mode == IF game.forbidMoving /\ game.forbidZooming /\ game.forbidRotating
                THEN "NMPZ"
                ELSE IF game.forbidMoving
                     THEN (IF game.forbidRotating /\ ~game.forbidZooming THEN "NMP"
                           ELSE IF game.forbidRotating /\ game.forbidZooming THEN "NMPZ"
                           ELSE "NM")
                     ELSE "Moving"
    IN  IF game.timeLimit > 0
        THEN (IF game.timeLimit % 60 = 0
              THEN <<mode, NumText(game.timeLimit \div 60), "min">>
              ELSE <<mode, NumText(game.timeLimit), "s">>)
        ELSE <<mode>>

\* f"Map {map_idx}"
MapLabel(i) == CASE i = 1 -> "Map 1" [] i = 2 -> "Map 2"

\* parse_deadline_epoch of a deadline text: the epoch, or None when
\* pd.to_datetime cannot parse the text and the function raises
ParseDeadlineEpoch(text) == IF text = "deadline" THEN Some(DeadlineEpoch) ELSE None

-----------------------------------------------------------------------------
(* main and build_week_entries *)

Week == weeks[week_i]

\* fetch_played_at argument of build_week_entries for the current week
WeekFetchesPlayedAt == fetch_played_at /\ Week.deadline # None

\* The --week arguments of a run: each is the list parts of parse_week_specs,
\* with only a label, with a URL file, or with a URL file and a deadline text
WeekArgKinds == {"label", "urls"} \cup DeadlineTexts

WeekArgParts(label, kind) ==
    IF kind = "label" THEN <<label>>
    ELSE IF kind = "urls" THEN <<label, "urls.txt">>
    ELSE <<label, "urls.txt", kind>>

WeekArgLists ==
    UNION {{[i \in 1..n |-> WeekArgParts(WeekLabels[i], k[i])] :
               k \in [1..n -> WeekArgKinds]} : n \in 0..Len(WeekLabels)}

\* parse_week_specs raises SystemExit: no weeks, or a week with < 2 parts
BadWeekArgs(wa) == wa = <<>> \/ \E i \in 1..Len(wa) : Len(wa[i]) < 2

\* The WeekSpec list parse_week_specs returns
ParseWeekSpecs(wa) ==
    [i \in 1..Len(wa) |->
        [label |-> wa[i][1],
         deadline |-> IF Len(wa[i]) >= 3 /\ wa[i][3] # "" THEN Some(wa[i][3]) ELSE None]]

Init ==
    /\ week_args \in WeekArgLists
    /\ ncfa \in NcfaValues
    /\ weeks = <<>>
    /\ fetch_played_at \in BOOLEAN
    /\ args_keep_missing \in BOOLEAN
    /\ args_tie \in RunTieModes
    /\ pc = "parse"
    /\ BuildStartState
    /\ ReportStartState
    /\ RankIdle
    /\ FilterIdle
    /\ FetchIdle
    /\ ItemIdle

\* weeks = parse_week_specs(args.week)
ParseWeeks ==
    /\ pc = "parse"
    /\ IF BadWeekArgs(week_args)
       THEN pc' = "failed" /\ weeks' = weeks
       ELSE pc' = "ncfa" /\ weeks' = ParseWeekSpecs(week_args)
    /\ UNCHANGED <<week_args, ncfa, fetch_played_at, args_keep_missing, args_tie,
                   buildVars, reportVars, rankVars, filterVars, fetchVars, itemVars>>

\* if not ncfa: raise SystemExit("Missing _ncfa ...")
CheckNcfa ==
    /\ pc = "ncfa"
    /\ pc' = IF ncfa = "" THEN "failed" ELSE "deadlines"
    /\ UNCHANGED <<argVars, buildVars, reportVars, rankVars, filterVars, fetchVars, itemVars>>

\* for w in weeks: if w.deadline: deadlines_epoch[w.label] = parse_deadline_epoch(...)
\* The result is None when parse_deadline_epoch raises for some week.
RECURSIVE DeadlinesOf(_, _)
DeadlinesOf(ws, d) ==
    IF ws = <<>> THEN Some(d)
    ELSE IF Head(ws).deadline = None THEN DeadlinesOf(Tail(ws), d)
    ELSE LET ep == ParseDeadlineEpoch(Val(Head(ws).deadline))
         IN  IF ep = None THEN None
             ELSE DeadlinesOf(Tail(ws), Put(d, Head(ws).label, Val(ep)))

CollectDeadlines ==
    /\ pc = "deadlines"
    /\ LET d == DeadlinesOf(weeks, <<>>)
       IN  IF d = None
           THEN pc' = "failed" /\ deadlines_epoch' = deadlines_epoch
           ELSE pc' = "week" /\ deadlines_epoch' = Val(d)
    /\ UNCHANGED <<argVars, week_i, n_urls, map_idx, items, map_name, rule_text,
                   records_read, played_at_cache, out_entries, has_any_played_at,
                   all_entries, any_played_at, lookups, reportVars, rankVars, filterVars, fetchVars, itemVars>>

\* build_week_entries is entered: the URL file is read, the locals are set
\* (urls = load_urls(...); if not urls: raise RuntimeError)
BuildWeekStart ==
    /\ pc = "week"
    /\ \E n \in UrlCounts :
         /\ n_urls' = n
         /\ pc' = IF n = 0 THEN "failed" ELSE "fetch"
    /\ out_entries' = <<>>
    /\ has_any_played_at' = FALSE
    /\ played_at_cache' = <<>>
    /\ map_idx' = 1
    /\ UNCHANGED <<argVars, deadlines_epoch, week_i, items, map_name, rule_text,
                   records_read, all_entries, any_played_at, lookups, reportVars,
                   rankVars, filterVars, fetchVars, itemVars>>

\* fetch_highscores_items returns the items of the map
FetchHighscores ==
    /\ pc = "fetch"
    /\ items' = <<>>
    /\ map_name' = ""
    /\ rule_text' = <<>>
    /\ pc' = "items"
    /\ UNCHANGED <<argVars, deadlines_epoch, week_i, n_urls, map_idx, records_read,
                   played_at_cache, out_entries, has_any_played_at, all_entries,
                   any_played_at, lookups, reportVars, rankVars, filterVars, fetchVars, itemVars>>

\* http_get_json raises RuntimeError on an HTTP status >= 400: main does not
\* catch it
FetchHighscoresFails ==
    /\ pc = "fetch"
    /\ pc' = "failed"
    /\ UNCHANGED <<argVars, buildVars, reportVars, rankVars, filterVars, fetchVars, itemVars>>

\* map_name and rule_text: taken from items[0]["game"]
MapNameAfter(it) ==
    IF items # <<>> THEN map_name ELSE IF it.has_game THEN it.mapName ELSE ""
RuleTextAfter(it) ==
    IF items # <<>> THEN rule_text ELSE IF it.has_game THEN RuleTextFromGame(it) ELSE <<>>

\* One round of "for it in items" of build_week_entries, for the record it;
\* res is what fetch_game_details_for_played_at returns if it is called.
ProcessItem(it, res) ==
    LET norm == NormaliseItem(it)
        skipped == norm = None
        game_token == it.token
        looks_up == ~skipped /\ WeekFetchesPlayedAt /\ game_token # ""
        cached == looks_up /\ HasKey(played_at_cache, game_token)
        played_at == IF ~looks_up THEN None
                     ELSE IF cached THEN Get(played_at_cache, game_token)
                     ELSE res
        mname == MapNameAfter(it)
        rtext == RuleTextAfter(it)
    IN  /\ pc = "items"
        /\ records_read < MaxRecords
        /\ records_read' = records_read + 1
        /\ items' = Append(items, it)
        /\ map_name' = mname
        /\ rule_text' = rtext
        /\ IF looks_up /\ ~cached
           THEN /\ played_at_cache' = Put(played_at_cache, game_token, res)
                /\ lookups' = Put(lookups, game_token, GetOr(lookups, game_token, 0) + 1)
           ELSE /\ (looks_up \/ res = None)
                /\ UNCHANGED <<played_at_cache, lookups>>
        /\ has_any_played_at' = (has_any_played_at \/ (~skipped /\ played_at # None))
        /\ out_entries' =
              IF skipped THEN out_entries
              ELSE Append(out_entries,
                          MakeEntry(Week.label, map_idx,
                                    IF mname # "" THEN mname ELSE MapLabel(map_idx),
                                    rtext, Val(norm).player, Val(norm).total_pts,
                                    Val(norm).total_time, played_at))
        /\ UNCHANGED <<argVars, pc, deadlines_epoch, week_i, n_urls, map_idx,
                       all_entries, any_played_at, reportVars, rankVars, filterVars,
                       fetchVars, itemVars>>

\* The items of the map are exhausted: the next map, or the end of the loop
EndMap ==
    /\ pc = "items"
    /\ IF map_idx < n_urls
       THEN map_idx' = map_idx + 1 /\ pc' = "fetch"
       ELSE map_idx' = map_idx /\ pc' = "return"
    /\ UNCHANGED <<argVars, deadlines_epoch, week_i, n_urls, items, map_name,
                   rule_text, records_read, played_at_cache, out_entries,
                   has_any_played_at, all_entries, any_played_at, lookups,
                   reportVars, rankVars, filterVars, fetchVars, itemVars>>

\* Mutant of BuildWeekReturn: the workbook of the weeks built so far is saved
\* after every week.
BuildWeekReturnSavesWorkbook ==
    /\ pc = "return"
    /\ all_entries' = all_entries \o out_entries
    /\ any_played_at' = (any_played_at \/ has_any_played_at)
    /\ wrote_all' = TRUE
    /\ IF week_i < Len(weeks)
       THEN week_i' = week_i + 1 /\ pc' = "week"
       ELSE week_i' = week_i /\ pc' = "tables"
    /\ UNCHANGED <<argVars, deadlines_epoch, n_urls, map_idx, items, map_name,
                   rule_text, records_read, played_at_cache, out_entries,
                   has_any_played_at, lookups, can_filter, filtered_entries,
                   tablesAll, tablesF, wrote_filtered, rankVars, filterVars, fetchVars, itemVars>>

\* build_week_entries returns (out_entries, has_any_played_at) to main
BuildWeekReturn ==
    /\ pc = "return"
    /\ all_entries' = all_entries \o out_entries
    /\ any_played_at' = (any_played_at \/ has_any_played_at)
    /\ IF week_i < Len(weeks)
       THEN week_i' = week_i + 1 /\ pc' = "week"
       ELSE week_i' = week_i /\ pc' = "tables"
    /\ UNCHANGED <<argVars, deadlines_epoch, n_urls, map_idx, items, map_name,
                   rule_text, records_read, played_at_cache, out_entries,
                   has_any_played_at, lookups, reportVars, rankVars, filterVars, fetchVars, itemVars>>

\* Mutant of CanFilter: the resolved timestamps are not asked for.
CanFilterIgnoresPlayedAt(deadlines, fetch, any_played) == deadlines # <<>> /\ fetch

\* can_filter of main
CanFilter(deadlines, fetch, any_played) == deadlines # <<>> /\ fetch /\ any_played

\* Lines 1087-1107: the tables of the ALL report, can_filter and, if
\* can_filter, the filtered entries and their tables.  The tables are given
\* in the order compute_week_tables and compute_total_tables make them.
ComputeTables ==
    /\ pc = "tables"
    /\ df_overview_all' = Some(OverviewTable(all_entries, args_tie))
    /\ df_weekly_all' = Some(WeeklyTable(Val(df_overview_all')))
    /\ df_total_all' = Some(TotalTable(Val(df_overview_all')))
    /\ df_stats_all' = Some(StatsTable(Val(df_total_all'), BestWeek(Val(df_overview_all'))))
    /\ can_filter' = CanFilter(deadlines_epoch, fetch_played_at, any_played_at)
    /\ IF can_filter'
       THEN /\ filtered_entries' =
                  FilterEntriesByDeadlines(all_entries, deadlines_epoch, args_keep_missing)
            /\ df_overview_f' = Some(OverviewTable(filtered_entries', args_tie))
            /\ df_weekly_f' = Some(WeeklyTable(Val(df_overview_f')))
            /\ df_total_f' = Some(TotalTable(Val(df_overview_f')))
            /\ df_stats_f' = Some(StatsTable(Val(df_total_f'), BestWeek(Val(df_overview_f'))))
       ELSE UNCHANGED <<filtered_entries, tablesF>>
    /\ pc' = "write_all"
    /\ UNCHANGED <<argVars, buildVars, wrote_all, wrote_filtered, rankVars, filterVars, fetchVars, itemVars>>

\* wb_all.save(out_all)
WriteAll ==
    /\ pc = "write_all"
    /\ wrote_all' = TRUE
    /\ pc' = "write_filtered"
    /\ UNCHANGED <<argVars, buildVars, can_filter, filtered_entries, tablesAll,
                   tablesF, wrote_filtered, rankVars, filterVars, fetchVars, itemVars>>

\* Is the filtered workbook written (the test of line 1130)
WritesFiltered(can, overview, weekly, total, stats) ==
    can /\ overview # None /\ weekly # None /\ total # None /\ stats # None

\* wb_f.save(out_f) if can_filter and the filtered tables exist; return 0
WriteFiltered ==
    /\ pc = "write_filtered"
    /\ wrote_filtered' = WritesFiltered(can_filter, df_overview_f, df_weekly_f,
                                        df_total_f, df_stats_f)
    /\ pc' = "done"
    /\ UNCHANGED <<argVars, buildVars, can_filter, filtered_entries, tablesAll,
                   tablesF, wrote_all, rankVars, filterVars, fetchVars, itemVars>>

Next ==
    \/ ParseWeeks
    \/ CheckNcfa
    \/ CollectDeadlines
    \/ BuildWeekStart
    \/ FetchHighscores
    \/ FetchHighscoresFails
    \/ \E it \in RawItems, res \in LookupResults : ProcessItem(it, res)
    \/ EndMap
    \/ BuildWeekReturn
    \/ ComputeTables
    \/ WriteAll
    \/ WriteFiltered

Spec == Init /\ [][Next]_vars

-----------------------------------------------------------------------------
(* Specification of the table roll-ups alone: all_entries is drawn in the    *)
(* initial state as the week loop of main leaves it (ordered by week, then   *)
(* by map, several records of one player on a map included), and the step    *)
(* is the table computation of main.                                         *)

\* Entries of two players on the maps 1 and 2 of the weeks
TableEntries ==
    {MakeEntry(w, m, MapLabel(m), <<>>, p, pts, 60, None) :
        w \in Range(WeekLabels), m \in {1, 2}, p \in {"A", "B"}, pts \in PointValues}

\* all_entries.extend(entries) week by week, each week map by map
InBuildOrder(es) ==
    \A i \in 1..(Len(es) - 1) :
        ~TupleLess(WeekMapSortKey(WeekMapKey(es[i + 1])),
                   WeekMapSortKey(WeekMapKey(es[i])))

InitTables ==
    /\ week_args = <<>> /\ ncfa = "cookie" /\ weeks = <<>>
    /\ fetch_played_at = FALSE /\ args_keep_missing = FALSE
    /\ args_tie \in TieModes
    /\ pc = "tables"
    /\ deadlines_epoch = <<>> /\ week_i = 1 /\ n_urls = 0 /\ map_idx = 0
    /\ items = <<>> /\ map_name = "" /\ rule_text = <<>> /\ records_read = 0
    /\ played_at_cache = <<>> /\ out_entries = <<>> /\ has_any_played_at = FALSE
    /\ all_entries \in {es \in SeqsUpTo(TableEntries, MaxTableEntries) : InBuildOrder(es)}
    /\ any_played_at = FALSE /\ lookups = <<>>
    /\ ReportStartState
    /\ RankIdle
    /\ FilterIdle
    /\ FetchIdle
    /\ ItemIdle

NextTablesSpec == ComputeTables

SpecTables == InitTables /\ [][NextTablesSpec]_vars

-----------------------------------------------------------------------------
(* Specification of the two reports of a run with a deadline: all_entries   *)
(* is drawn as the week loop of main leaves it for one week with a deadline  *)
(* and play times fetched, every entry played before or after the deadline,  *)
(* and the step is the table computation of main, filter included.           *)

\* Entries of three players on the maps 1 and 2 of the week W1, played
\* before or after the deadline
ReportEntries ==
    {MakeEntry("W1", m, MapLabel(m), <<>>, p, pts, 60, Some(t)) :
        m \in {1, 2}, p \in {"A", "B", "C"}, pts \in PointValues, t \in {90, 110}}

InitReport ==
    /\ week_args = <<>> /\ ncfa = "cookie" /\ weeks = <<>>
    /\ fetch_played_at = TRUE /\ args_keep_missing = FALSE
    /\ args_tie \in TieModes
    /\ pc = "tables"
    /\ deadlines_epoch = <<<<"W1", DeadlineEpoch>>>>
    /\ week_i = 1 /\ n_urls = 0 /\ map_idx = 0
    /\ items = <<>> /\ map_name = "" /\ rule_text = <<>> /\ records_read = 0
    /\ played_at_cache = <<>> /\ out_entries = <<>> /\ has_any_played_at = FALSE
    /\ all_entries \in {es \in SeqsUpTo(ReportEntries, MaxReportEntries) : InBuildOrder(es)}
    /\ any_played_at = (all_entries # <<>>) /\ lookups = <<>>
    /\ ReportStartState
    /\ RankIdle
    /\ FilterIdle
    /\ FetchIdle
    /\ ItemIdle

NextReportSpec == ComputeTables

SpecReport == InitReport /\ [][NextReportSpec]_vars

-----------------------------------------------------------------------------
(* Claims about the ranker (SpecRank) *)

Returned == rpc = "done"

Entrants == Range(Keys(pts_by_player))

NumEntrants == Len(pts_by_player)

SumBorda == SumSeq([i \in 1..Len(borda) |-> borda[i][2]])

\* Two players share identical (points, time)
HasTie ==
    \E p, q \in Entrants :
        p # q /\ RankKey(pts_by_player, time_by_player, p)
               = RankKey(pts_by_player, time_by_player, q)

\* C1 as claimed: for every non-empty entrant set and EVERY tie mode the
\* Borda points of a map sum to N*(N+1)/2 (in halves: N*(N+1)).
C1_BordaSumEveryMode ==
    (Returned /\ NumEntrants > 0) => SumBorda = NumEntrants * (NumEntrants + 1)

\* C1 amended: the Borda points of a non-empty map sum to N*(N+1)/2 under
\* tie mode "average", and under every tie mode when no two players share
\* identical (points, time).
C1_BordaSumAverageOrNoTie ==
    (Returned /\ NumEntrants > 0 /\ (tie_mode = "average" \/ ~HasTie))
        => SumBorda = NumEntrants * (NumEntrants + 1)

C1_Witness ==
    Returned /\ NumEntrants = 3 /\ tie_mode = "average" /\ HasTie
        /\ SumBorda = 12

\* The scenario of C2: A 5000/60, B 5000/60, C 4000/90, in any row order
ScenarioABC ==
    /\ Entrants = {"A", "B", "C"}
    /\ Get(pts_by_player, "A") = 5000 /\ Get(time_by_player, "A") = 60
    /\ Get(pts_by_player, "B") = 5000 /\ Get(time_by_player, "B") = 60
    /\ Get(pts_by_player, "C") = 4000 /\ Get(time_by_player, "C") = 90

RankBordaIs(p, r, b) == Get(rank_best, p) = r /\ Get(borda, p) = b

\* C2 as claimed: in the scenario, "average" gives A and B rank 1.5 / Borda
\* 2.5 and C rank 3 / Borda 1; "min" gives A and B rank 1 / Borda 3 and C
\* rank 3 / Borda 1; "dense" gives A and B rank 1 / Borda 2 and C rank 2 /
\* Borda 1.
C2_ScenarioAsClaimed ==
    (Returned /\ ScenarioABC) =>
        /\ tie_mode = "average" =>
              RankBordaIs("A", 3, 5) /\ RankBordaIs("B", 3, 5) /\ RankBordaIs("C", 6, 2)
        /\ tie_mode = "min" =>
              RankBordaIs("A", 2, 6) /\ RankBordaIs("B", 2, 6) /\ RankBordaIs("C", 6, 2)
        /\ tie_mode = "dense" =>
              RankBordaIs("A", 2, 4) /\ RankBordaIs("B", 2, 4) /\ RankBordaIs("C", 4, 2)

\* C2 amended: as claimed under "average" and "min"; under "dense" A and B
\* get rank 1 / Borda 3 and C gets rank 2 / Borda 2 (Borda is N - rank + 1
\* with N = 3 entrants in every mode).
C2_ScenarioRanks ==
    (Returned /\ ScenarioABC) =>
        /\ tie_mode = "average" =>
              RankBordaIs("A", 3, 5) /\ RankBordaIs("B", 3, 5) /\ RankBordaIs("C", 6, 2)
        /\ tie_mode = "min" =>
              RankBordaIs("A", 2, 6) /\ RankBordaIs("B", 2, 6) /\ RankBordaIs("C", 6, 2)
        /\ tie_mode = "dense" =>
              RankBordaIs("A", 2, 6) /\ RankBordaIs("B", 2, 6) /\ RankBordaIs("C", 4, 4)

C2_Witness ==
    Returned /\ ScenarioABC /\ tie_mode = "dense" /\ RankBordaIs("C", 4, 4)

RankUnder(mode) == RankBest(pts_by_player, time_by_player, mode)

\* C7: for every player of a map, rank under "min" <= rank under "average"
\* <= rank under "max".  The returned rank_best is the one of tie_mode; the
\* other modes are computed on the same arguments.
C7_MinAverageMax ==
    Returned =>
        LET lo == IF tie_mode = "min" THEN rank_best ELSE RankUnder("min")
            av == IF tie_mode = "average" THEN rank_best ELSE RankUnder("average")
            hi == IF tie_mode = "max" THEN rank_best ELSE RankUnder("max")
        IN  \A i \in 1..Len(rank_best) :
                LET p == rank_best[i][1]
                IN  Get(lo, p) <= Get(av, p) /\ Get(av, p) <= Get(hi, p)

C7_Witness ==
    Returned /\ tie_mode = "average" /\ \E p \in Entrants :
        /\ Get(RankUnder("min"), p) < Get(rank_best, p)
        /\ Get(rank_best, p) < Get(RankUnder("max"), p)

\* The dict d with its items re-inserted in the order given by keys
Reordered(d, keys) == [i \in 1..Len(keys) |-> <<keys[i], Get(d, keys[i])>>]

SameAssignment(d1, d2) ==
    /\ Range(Keys(d1)) = Range(Keys(d2))
    /\ \A p \in Range(Keys(d1)) : Get(d1, p) = Get(d2, p)

\* The entrants of the call in name order
RECURSIVE InNameOrder(_, _)
InNameOrder(i, ps) ==
    IF i > Len(PlayerNames) THEN <<>>
    ELSE (IF PlayerNames[i] \in ps THEN <<PlayerNames[i]>> ELSE <<>>)
            \o InNameOrder(i + 1, ps)

\* C8: the rank and the Borda value of every player are the same for every
\* order in which the entrants are supplied.  Every order of every entrant
\* set is an initial state, and each is compared with the name order of the
\* same entrants, so any two orders are compared through it.
C8_OrderIndependent ==
    Returned =>
        LET keys == InNameOrder(1, Entrants)
            pts == Reordered(pts_by_player, keys)
            tim == Reordered(time_by_player, keys)
            rank == RankBest(pts, tim, tie_mode)
        IN  /\ SameAssignment(rank, rank_best)
            /\ SameAssignment(BordaPoints(pts, rank), borda)

C8_Witness ==
    Returned /\ NumEntrants = 3 /\ HasTie
        /\ Keys(pts_by_player) = <<"C", "A", "B">>
        /\ SameAssignment(RankBest(Reordered(pts_by_player, <<"A", "B", "C">>),
                                   Reordered(time_by_player, <<"A", "B", "C">>),
                                   tie_mode),
                          rank_best)

\* G: the number of distinct (points, time) groups of the map
NumGroups ==
    Cardinality({RankKey(pts_by_player, time_by_player, p) : p \in Entrants})

\* C9: under "dense" the set of assigned ranks of a non-empty map is exactly
\* {1, ..., G}.
C9_DenseNoGaps ==
    (Returned /\ tie_mode = "dense" /\ NumEntrants > 0) =>
        {rank_best[i][2] : i \in 1..Len(rank_best)} = {Float(g) : g \in 1..NumGroups}

\* a tie group of two ranked before a single player
C9_Witness ==
    /\ Returned /\ tie_mode = "dense" /\ NumEntrants = 3 /\ NumGroups = 2
    /\ \E p, q, r \in Entrants :
         p # q /\ Get(rank_best, p) = 2 /\ Get(rank_best, q) = 2
               /\ Get(rank_best, r) = 4

\* C15: for every tie mode a map with exactly one entrant gives that entrant
\* rank 1.0 and Borda 1.0.
C15_SolitaryEntrant ==
    (Returned /\ NumEntrants = 1) =>
        LET p == pts_by_player[1][1]
        IN  rank_best = <<<<p, Float(1)>>>> /\ borda = <<<<p, Float(1)>>>>

C15_Witness ==
    Returned /\ NumEntrants = 1 /\ tie_mode = "dense"
        /\ Get(rank_best, pts_by_player[1][1]) = 2
        /\ Get(borda, pts_by_player[1][1]) = 2

\* p has strictly more points than q, or equal points and strictly lower time
StrictlyBetter(p, q) ==
    \/ Get(pts_by_player, p) > Get(pts_by_player, q)
    \/ /\ Get(pts_by_player, p) = Get(pts_by_player, q)
       /\ Get(time_by_player, p) < Get(time_by_player, q)

SameResult(p, q) ==
    /\ Get(pts_by_player, p) = Get(pts_by_player, q)
    /\ Get(time_by_player, p) = Get(time_by_player, q)

\* C19: for every tie mode, a strictly better player has a strictly lower
\* rank and a strictly higher Borda value, players with identical points and
\* time have identical rank and Borda, and every Borda value lies in [1, N].
C19_RankMonotone ==
    Returned =>
        /\ \A p, q \in Entrants :
              /\ StrictlyBetter(p, q) =>
                    /\ Get(rank_best, p) < Get(rank_best, q)
                    /\ Get(borda, p) > Get(borda, q)
              /\ SameResult(p, q) =>
                    /\ Get(rank_best, p) = Get(rank_best, q)
                    /\ Get(borda, p) = Get(borda, q)
        /\ \A i \in 1..Len(borda) :
              Float(1) <= borda[i][2] /\ borda[i][2] <= Float(NumEntrants)

\* a player ahead by time alone of a pair of tied players
C19_Witness ==
    /\ Returned /\ NumEntrants = 3
    /\ \E p, q, r \in Entrants :
         /\ q # r /\ SameResult(q, r)
         /\ Get(pts_by_player, p) = Get(pts_by_player, q)
         /\ Get(time_by_player, p) < Get(time_by_player, q)
         /\ Get(rank_best, p) < Get(rank_best, q)
         /\ Get(rank_best, q) = Get(rank_best, r)

-----------------------------------------------------------------------------
(* Claims about the deadline filter (SpecFilter) *)

Filtered == fpc = "done"

HasDeadline(e) == HasKey(deadlines_epoch_by_week, e.week_label)

\* The three cases of C5 in which an entry is kept
KeptByPolicy(e) ==
    \/ ~HasDeadline(e)
    \/ HasDeadline(e) /\ e.played_at_epoch = None /\ keep_missing_time
    \/ HasDeadline(e) /\ e.played_at_epoch # None
          /\ Val(e.played_at_epoch) <= Get(deadlines_epoch_by_week, e.week_label)

\* The positions of the entries kept by the policy, in order
RECURSIVE PolicyPositions(_)
PolicyPositions(i) ==
    IF i > Len(entries) THEN <<>>
    ELSE (IF KeptByPolicy(entries[i]) THEN <<i>> ELSE <<>>) \o PolicyPositions(i + 1)

\* C5: the filter keeps an entry exactly when its week has no deadline, or
\* its play time is unknown and keepMissingTime is set, or its play time is
\* known and <= the deadline; every other entry is dropped.
C5_FilterPolicy ==
    Filtered =>
        LET pos == PolicyPositions(1)
        IN  out = [i \in 1..Len(pos) |-> entries[pos[i]]]

\* an entry played exactly at the deadline is kept, a later one and an
\* unknown one are dropped
C5_Witness ==
    /\ Filtered /\ ~keep_missing_time /\ Len(entries) = 2 /\ Len(out) = 1
    /\ HasDeadline(entries[1]) /\ entries[1].played_at_epoch = Some(DeadlineEpoch)
    /\ HasDeadline(entries[2]) /\ entries[2].played_at_epoch # None
    /\ Val(entries[2].played_at_epoch) > DeadlineEpoch
    /\ out[1] = entries[1]

-----------------------------------------------------------------------------
(* Claims about a run of main (Spec) *)

TablesComputed == df_overview_all # None

Succeeded == pc = "done"

\* C3: the rows of one (week, map) group contain each player name at most
\* once, also when the raw leaderboard holds several records of one player.
C3_UniquePlayerPerMap ==
    TablesComputed =>
        LET rows == Val(df_overview_all)
        IN  \A i, j \in 1..Len(rows) :
                (i < j /\ rows[i].week = rows[j].week
                       /\ rows[i].map_index = rows[j].map_index)
                    => rows[i].player # rows[j].player

\* The (week, map) pairs and the weeks in which player p has a row
MapsOf(p) ==
    LET rows == Val(df_overview_all)
    IN  {<<rows[i].week, rows[i].map_index>> : i \in {j \in 1..Len(rows) : rows[j].player = p}}
WeeksOf(p) ==
    LET rows == Val(df_overview_all)
    IN  {rows[i].week : i \in {j \in 1..Len(rows) : rows[j].player = p}}

\* q is the quotient (a / 2) / n, for a in halves
IsQuotient(q, a, n) == q.num * n = a * q.den

\* C4: for every player maps_counted is the number of distinct (week, map)
\* pairs with a row of the player, weeks_counted the number of distinct
\* weeks, avg Borda/map = total Borda / maps_counted and avg Borda/week =
\* total Borda / weeks_counted.
C4_MapAndWeekCounts ==
    TablesComputed =>
        \A i \in 1..Len(Val(df_total_all)) :
            LET r == Val(df_total_all)[i]
                maps == Cardinality(MapsOf(r.player))
                wks == Cardinality(WeeksOf(r.player))
            IN  /\ r.maps_counted = maps
                /\ r.weeks_counted = wks
                /\ IsQuotient(r.avg_borda_per_map, r.total_borda, maps)
                /\ IsQuotient(r.avg_borda_per_week, r.total_borda, wks)

SomeWeekHasDeadline == \E i \in 1..Len(weeks) : weeks[i].deadline # None

SomeEntryHasPlayedAt ==
    \E i \in 1..Len(all_entries) : all_entries[i].played_at_epoch # None

\* C6: in a successful run the unfiltered workbook is written, and the
\* filtered workbook is written if and only if some week has a deadline,
\* played-at lookup was requested and some entry of the run has a resolved
\* playedAtEpoch.
C6_FilteredReportIff ==
    Succeeded =>
        /\ wrote_all
        /\ wrote_filtered <=>
              (SomeWeekHasDeadline /\ fetch_played_at /\ SomeEntryHasPlayedAt)

C6_Witness ==
    Succeeded /\ wrote_all /\ wrote_filtered /\ Len(weeks) = 2
        /\ weeks[1].deadline = None /\ SomeEntryHasPlayedAt

\* The positions of the records of the current map that yield an Entry
ValidRecords == {i \in 1..Len(items) : NormaliseItem(items[i]) # None}

FirstValidRecord == items[CHOOSE i \in ValidRecords : \A j \in ValidRecords : i <= j]

\* Some record read from the current map supplies a map name
SomeRecordNamesMap == \E i \in 1..Len(items) : items[i].has_game /\ items[i].mapName # ""

\* The entries of the current map
CurrentMapEntries ==
    {i \in 1..Len(out_entries) : out_entries[i].map_index = map_idx}

\* C18: the map name and the rule text of the entries of a map are those of
\* the first valid record of the map's leaderboard, also when earlier
\* records are invalid; the name is "Map {index}" only when no record
\* supplies a map name.
C18_MapNameFromFirstValid ==
    pc = "items" =>
        \A i \in CurrentMapEntries :
            /\ out_entries[i].rule_text = RuleTextFromGame(FirstValidRecord)
            /\ IF FirstValidRecord.mapName # ""
               THEN out_entries[i].map_name = FirstValidRecord.mapName
               ELSE out_entries[i].map_name = MapLabel(map_idx) => ~SomeRecordNamesMap

\* a is b with some elements left out
RECURSIVE IsSubSequence(_, _)
IsSubSequence(a, b) ==
    \/ a = <<>>
    \/ /\ b # <<>>
       /\ \/ Head(a) = Head(b) /\ IsSubSequence(Tail(a), Tail(b))
          \/ IsSubSequence(a, Tail(b))

\* The entries of the same run without any deadline: no play time is looked
\* up, every other field is as it is
WithoutPlayedAt(es) == [i \in 1..Len(es) |-> [es[i] EXCEPT !.played_at_epoch = None]]

\* The filter call of the step from "tables": its result is a sub-sequence
\* of all_entries, all_entries is left as it was, and keepMissingTime = TRUE
\* keeps every entry that keepMissingTime = FALSE keeps
FilterFrame ==
    /\ all_entries' = all_entries
    /\ can_filter' => IsSubSequence(filtered_entries', all_entries)
    /\ IsSubSequence(FilterEntriesByDeadlines(all_entries, deadlines_epoch, FALSE),
                     FilterEntriesByDeadlines(all_entries, deadlines_epoch, TRUE))

\* C20 as claimed: the filter returns a sub-sequence of its input, leaves
\* the input unchanged, keeps with keepMissingTime = TRUE a superset of what
\* it keeps with FALSE, and the unfiltered tables of the run are the same
\* whatever the deadlines and the flag are: they are the tables of the run
\* without deadlines.
C20_UnfilteredTablesSame ==
    [][pc = "tables" =>
         /\ FilterFrame
         /\ LET ov == OverviewTable(WithoutPlayedAt(all_entries), args_tie)
            IN  /\ df_overview_all' = Some(ov)
                /\ df_weekly_all' = Some(WeeklyTable(ov))
                /\ df_total_all' = Some(TotalTable(ov))
                /\ df_stats_all' = Some(StatsTable(TotalTable(ov), BestWeek(ov)))]_vars

\* The overview rows without their played_at_epoch column
WithoutPlayedAtColumn(rows) ==
    [i \in 1..Len(rows) |-> [rows[i] EXCEPT !.played_at_epoch = None]]

\* C20 amended: as claimed for the filter; the unfiltered weekly, total and
\* stats tables and every column of the unfiltered overview except
\* played_at_epoch are the same whatever the deadlines and the flag are.
C20_FilterFrameAndTables ==
    [][pc = "tables" =>
         /\ FilterFrame
         /\ LET ov == OverviewTable(WithoutPlayedAt(all_entries), args_tie)
            IN  /\ WithoutPlayedAtColumn(Val(df_overview_all')) = ov
                /\ df_weekly_all' = Some(WeeklyTable(ov))
                /\ df_total_all' = Some(TotalTable(ov))
                /\ df_stats_all' = Some(StatsTable(TotalTable(ov), BestWeek(ov)))]_vars

\* a run that filtered: one of two entries was dropped, and a play time was
\* resolved
C20_Witness ==
    /\ Succeeded /\ can_filter /\ SomeEntryHasPlayedAt
    /\ Len(all_entries) = 2 /\ Len(filtered_entries) = 1
    /\ filtered_entries[1] = all_entries[2]

\* C10: over the whole run the game-details lookup is issued at most once
\* per distinct game token.
C10_OneLookupPerGame ==
    \A i \in 1..Len(lookups) : lookups[i][2] <= 1

\* The run has ended by an uncaught exception or SystemExit
Failed == pc = "failed"

\* C11: a run that hits a fatal error (no weeks, malformed week spec, missing
\* credential, unparsable deadline, empty URL list, HTTP error of the
\* leaderboard endpoint) ends without having written either workbook.
C11_FatalErrorWritesNothing == Failed => (~wrote_all /\ ~wrote_filtered)

\* an HTTP error on the leaderboard of the second week, after the entries of
\* the first week were built
C11_Witness == Failed /\ week_i = 2 /\ all_entries # <<>> /\ n_urls > 0


-----------------------------------------------------------------------------
(* Claims about fetch_highscores_items (SpecFetch) *)

Fetched == hpc = "done"

\* The first n entries of the leaderboard, in leaderboard order
FirstEntries(n) == [i \in 1..n |-> i]

\* C12: for every leaderboard of T entries, page size >= 1 and cap >= 1 the
\* call returns the first min(T, cap) entries: all entries when T <= cap,
\* never more than cap.
C12_ReturnsFirstMinTCap ==
    Fetched =>
        all_items = FirstEntries(IF remote_total < max_players
                                 THEN remote_total ELSE max_players)

\* What the loop returns: the entries of the pages it requested, which end
\* at the first multiple of page_size that reaches max_players
ReturnsWholePages ==
    Fetched =>
        LET pages == (max_players + page_size - 1) \div page_size
            n == IF remote_total < pages * page_size
                 THEN remote_total ELSE pages * page_size
        IN  all_items = FirstEntries(n)


-----------------------------------------------------------------------------
(* Claims about the tables (SpecTables) *)

Overview == Val(df_overview_all)
Weekly == Val(df_weekly_all)
Total == Val(df_total_all)
Stats == Val(df_stats_all)

\* The positions of the overview rows of player p in week w on map m
RowsOn(p, w, m) ==
    {i \in 1..Len(Overview) : /\ Overview[i].player = p /\ Overview[i].week = w
                               /\ Overview[i].map_index = m}

\* The last-seen row of p on map m of week w
LastRowOn(p, w, m) ==
    Overview[CHOOSE i \in RowsOn(p, w, m) : \A j \in RowsOn(p, w, m) : j <= i]

\* The largest map index of the overview
NumMaps == IF Overview = <<>> THEN 0
           ELSE MaxSeq([i \in 1..Len(Overview) |-> Overview[i].map_index])

\* The sum of f over the maps of week w on which p has a row
MapBorda(p, w, m) == IF RowsOn(p, w, m) = {} THEN 0 ELSE LastRowOn(p, w, m).borda_points
MapPoints(p, w, m) == IF RowsOn(p, w, m) = {} THEN 0 ELSE LastRowOn(p, w, m).total_pts

\* The (player, week) pairs with a row
PlayerWeeks == {<<Overview[i].player, Overview[i].week>> : i \in 1..Len(Overview)}

\* C13: for every (player, week) the weekly row's Borda is the sum of the
\* player's per-map Borda points over the maps of the week where the player
\* has a row, its raw points the sum of the per-map points, and its
\* maps counted the number of distinct maps contributing.
C13_WeeklySums ==
    TablesComputed =>
        /\ {<<Weekly[i].player, Weekly[i].week>> : i \in 1..Len(Weekly)} = PlayerWeeks
        /\ Len(Weekly) = Cardinality(PlayerWeeks)
        /\ \A i \in 1..Len(Weekly) :
              LET p == Weekly[i].player
                  w == Weekly[i].week
              IN  /\ Weekly[i].weekly_borda =
                        SumSeq([m \in 1..NumMaps |-> MapBorda(p, w, m)])
                  /\ Weekly[i].weekly_total_pts =
                        SumSeq([m \in 1..NumMaps |-> MapPoints(p, w, m)])
                  /\ Weekly[i].maps_counted =
                        Cardinality({m \in 1..NumMaps : RowsOn(p, w, m) # {}})

\* No player has two rows on one map of one week
UniqueRows ==
    \A i, j \in 1..Len(Overview) :
        (i < j /\ Overview[i].week = Overview[j].week
               /\ Overview[i].map_index = Overview[j].map_index)
            => Overview[i].player # Overview[j].player

\* The weekly sums are as C13 says when every player has one record per map
WeeklySumsOfUniqueRows == (TablesComputed /\ UniqueRows) => C13_WeeklySums


\* Weekly row v is not better than weekly row w: lower Borda sum, or the same
\* Borda sum and no more raw points
NotBetterWeek(v, w) ==
    \/ v.weekly_borda < w.weekly_borda
    \/ v.weekly_borda = w.weekly_borda /\ v.weekly_total_pts <= w.weekly_total_pts

\* C14: for every player of the stats table the best week is a week of the
\* player with maximal weekly Borda sum and, among those, maximal raw point
\* sum; the reported best-week Borda and points are the sums of that week.
C14_BestWeek ==
    TablesComputed =>
        /\ {Stats[i].player : i \in 1..Len(Stats)}
              = {Overview[i].player : i \in 1..Len(Overview)}
        /\ \A i \in 1..Len(Stats) :
              \E k \in 1..Len(Weekly) :
                 /\ Weekly[k].player = Stats[i].player
                 /\ Weekly[k].week = Stats[i].best_week
                 /\ Weekly[k].weekly_borda = Stats[i].best_week_borda
                 /\ Weekly[k].weekly_total_pts = Stats[i].best_week_pts
                 /\ \A j \in 1..Len(Weekly) :
                       Weekly[j].player = Stats[i].player
                          => NotBetterWeek(Weekly[j], Weekly[k])

\* the second week of a player is the best: once by a higher Borda sum,
\* once by more raw points at the same Borda sum
C14_Witness ==
    /\ TablesComputed
    /\ \E i \in 1..Len(Stats), j, k \in 1..Len(Weekly) :
         /\ Stats[i].best_week = "W2"
         /\ Weekly[j].player = Stats[i].player /\ Weekly[j].week = "W1"
         /\ Weekly[k].player = Stats[i].player /\ Weekly[k].week = "W2"
         /\ \/ Weekly[j].weekly_borda < Weekly[k].weekly_borda
            \/ /\ Weekly[j].weekly_borda = Weekly[k].weekly_borda
               /\ Weekly[j].weekly_total_pts < Weekly[k].weekly_total_pts

\* Row a of the season table may stand before row b
TotalOrdered(a, b) ==
    \/ a.total_borda > b.total_borda
    \/ a.total_borda = b.total_borda /\ a.total_pts >= b.total_pts

WeeklyOrdered(a, b) ==
    \/ a.weekly_borda > b.weekly_borda
    \/ a.weekly_borda = b.weekly_borda /\ a.weekly_total_pts >= b.weekly_total_pts

\* C16: in the season total table every row stands before every row with a
\* strictly lower total Borda and, at equal total Borda, before every row
\* with strictly lower total raw points; within each week of the weekly
\* table the same holds for (weekly Borda, weekly raw points).
C16_TablesOrdered ==
    TablesComputed =>
        /\ \A i, j \in 1..Len(Total) : i < j => TotalOrdered(Total[i], Total[j])
        /\ \A i, j \in 1..Len(Weekly) :
              (i < j /\ Weekly[i].week = Weekly[j].week)
                 => WeeklyOrdered(Weekly[i], Weekly[j])

\* B stands before A in the season table by raw points at equal total Borda,
\* and before A in a week by weekly Borda or, at equal weekly Borda, by raw
\* points (the tables are grouped in name order before they are sorted)
C16_Witness ==
    /\ TablesComputed /\ Len(Total) = 2
    /\ Total[1].player = "B" /\ Total[2].player = "A"
    /\ Total[1].total_borda = Total[2].total_borda
    /\ Total[1].total_pts > Total[2].total_pts
    /\ \E i, j \in 1..Len(Weekly) :
         /\ i < j /\ Weekly[i].week = Weekly[j].week
         /\ Weekly[i].player = "B" /\ Weekly[j].player = "A"
         /\ \/ Weekly[i].weekly_borda > Weekly[j].weekly_borda
            \/ Weekly[i].weekly_total_pts > Weekly[j].weekly_total_pts

-----------------------------------------------------------------------------
(* Claims about the filtered report (SpecReport) *)

OverviewF == Val(df_overview_f)

FilteredComputed == TablesComputed /\ can_filter

\* The players with a row on map m of week w in the filtered overview
SurvivorsOn(w, m) ==
    {OverviewF[i].player :
        i \in {j \in 1..Len(OverviewF) : OverviewF[j].week = w /\ OverviewF[j].map_index = m}}

\* C21: in the filtered report rank and Borda are those of the surviving
\* entrants only (Borda = N - rank + 1 and 1 <= rank <= N, N the number of
\* surviving players of the map), and for every tie mode a surviving
\* player's rank on a map is not worse (not higher) than the player's rank
\* on the same map in the unfiltered report.
C21_FilteredRankNotWorse ==
    FilteredComputed =>
        \A i \in 1..Len(OverviewF) :
            LET r == OverviewF[i]
                N == Cardinality(SurvivorsOn(r.week, r.map_index))
            IN  /\ r.borda_points = Float(N) - r.rank_best + Float(1)
                /\ Float(1) <= r.rank_best /\ r.rank_best <= Float(N)
                /\ \A j \in 1..Len(Overview) :
                      (/\ Overview[j].player = r.player /\ Overview[j].week = r.week
                       /\ Overview[j].map_index = r.map_index)
                          => r.rank_best <= Overview[j].rank_best

\* The filtered ranks are as C21 says when every player has one record per
\* map
FilteredRanksOfUniqueRows == (FilteredComputed /\ UniqueRows) => C21_FilteredRankNotWorse

\* A run in which a better player was filtered out of a map of three
SurvivorMovesUp ==
    /\ FilteredComputed /\ UniqueRows
    /\ \E i \in 1..Len(OverviewF), j \in 1..Len(Overview) :
          /\ Overview[j].player = OverviewF[i].player
          /\ Overview[j].map_index = OverviewF[i].map_index
          /\ OverviewF[i].rank_best < Overview[j].rank_best
          /\ Cardinality(SurvivorsOn("W1", OverviewF[i].map_index)) = 2

-----------------------------------------------------------------------------
(* Claims about the normalisation of a record (SpecItem) *)

Normalised == ipc = "done"

\* The player name of the record is absent, blank or no string
NameMissing(it) ==
    \/ ~it.has_game \/ ~it.has_player
    \/ it.nick \in {NoneVal, IntVal(1), StrVal(<<>>), StrVal(<<" ">>)}

\* The integer a field value stands for, if any: an int, the integer part of
\* a float, a string of decimal digits with commas and blanks around it
FieldInt(x) ==
    CASE x = IntVal(4000) -> Some(4000)
      [] x = IntVal(7) -> Some(7)
      [] x = IntVal(60) -> Some(60)
      [] x = FloatVal(9001) -> Some(4500)
      [] x = StrVal(<<"5", ",", "0", "0", "0">>) -> Some(5000)
      [] x = StrVal(<<" ", "3", "0", "0", " ">>) -> Some(300)
      [] x = StrVal(<<"9", "0">>) -> Some(90)
      [] OTHER -> None

\* The points and the time C17 gives a record that yields an Entry
ClaimedPoints(it) ==
    IF FieldInt(it.amount) # None THEN Val(FieldInt(it.amount))
    ELSE IF FieldInt(it.totalScoreInPoints) # None THEN Val(FieldInt(it.totalScoreInPoints))
    ELSE 0
ClaimedTime(it) ==
    IF FieldInt(it.totalTime) # None THEN Val(FieldInt(it.totalTime)) ELSE TIME_SENTINEL

\* The Entry of a record has the claimed points and time
EntryAsClaimed(it) ==
    /\ item_entry # None
    /\ Val(item_entry).total_pts = ClaimedPoints(it)
    /\ Val(item_entry).total_time = ClaimedTime(it)

\* C17: normalising a record never raises; a record whose player name is
\* absent, blank or unparsable produces no Entry, every other record produces
\* exactly one Entry whose points are the parsed primary field, else the
\* parsed secondary field, else 0, and whose time is the parsed time field,
\* else the sentinel.
C17_NormaliseNeverFails ==
    /\ ipc # "raised"
    /\ Normalised =>
          IF NameMissing(Val(item)) THEN item_entry = None
          ELSE EntryAsClaimed(Val(item))

\* C17 holds for every record whose nick is not the word "UNKNOWN"
NormaliseExceptUnknown ==
    /\ ipc # "raised"
    /\ (Normalised /\ Val(item).nick # StrVal(<<"UNKNOWN">>)) =>
          IF NameMissing(Val(item)) THEN item_entry = None
          ELSE EntryAsClaimed(Val(item))


=============================================================================
